---- MODULE Spec2Model ----
(***************************************************************************)
(* Model of sessions/2_1_chat_eval.ipynb: the dataset examples handed to   *)
(* client.create_examples, the target ls_target / my_app, and the two      *)
(* evaluators conciseness and correctness handed to client.evaluate.       *)
(*                                                                         *)
(* Python values are tagged records, so that an int result and a bool      *)
(* result, or a returned value and a raised exception, stay distinct:      *)
(*   [type |-> "none"]               no value yet                          *)
(*   [type |-> "str",   s   |-> s]   a str                                 *)
(*   [type |-> "dict",  d   |-> d]   a dict with string keys               *)
(*   [type |-> "bool",  b   |-> b]   a bool                                *)
(*   [type |-> "int",   n   |-> n]   an int                                *)
(*   [type |-> "raise", exc |-> e]   the call raised exception e           *)
(*                                                                         *)
(* client.evaluate and client.create_examples are calls into the LangSmith *)
(* SDK.  The notebook fixes only what it passes to them, so the model      *)
(* takes from them only that ls_target is called with an example's inputs  *)
(* and that an evaluator is called with that example's inputs, the dict    *)
(* ls_target returned and the example's reference outputs.  What the SDK   *)
(* does around those calls (order, retries, error policy, timeouts, ids)   *)
(* is not modelled.                                                        *)
(***************************************************************************)
EXTENDS Integers, Sequences, FiniteSets, TLC

VARIABLES example, outputs, scores, judge

vars == <<example, outputs, scores, judge>>

\* Longest reply of the application's llm.invoke that the model draws.
MaxResponseLen == 95

NoValue == [type |-> "none"]
PyStr(s) == [type |-> "str", s |-> s]
PyDict(d) == [type |-> "dict", d |-> d]
PyBool(b) == [type |-> "bool", b |-> b]
PyInt(n) == [type |-> "int", n |-> n]
PyRaise(e) == [type |-> "raise", exc |-> e]

\* int(x) of a bool x.
int(b) == IF b THEN 1 ELSE 0

\* A str of n characters.
RECURSIVE Rep(_)
Rep(n) == IF n = 0 THEN "" ELSE "x" \o Rep(n - 1)

\* The examples list passed to client.create_examples.
Examples ==
  << [inputs  |-> [question |-> "What is NVIDIA's primary revenue driver?"],
      outputs |-> [answer |-> "Primarily data center chips and AI accelerators"]],
     [inputs  |-> [question |-> "What market does AMD compete in?"],
      outputs |-> [answer |-> "CPUs, GPUs, and data center processors"]],
     [inputs  |-> [question |-> "Who leads the AI chip market?"],
      outputs |-> [answer |-> "NVIDIA dominates with over 80% market share"]],
     [inputs  |-> [question |-> "What is AMD's main competitive advantage?"],
      outputs |-> [answer |-> "Cost-effective alternatives to Intel and NVIDIA"]],
     [inputs  |-> [question |-> "Does NVIDIA or AMD have higher gross margins?"],
      outputs |-> [answer |-> "NVIDIA typically maintains higher gross margins"]] >>

\* Outcomes of llm.invoke(...).content in my_app: a text, or the call raises.
AppReplies ==
  {PyStr(Rep(n)) : n \in 0..MaxResponseLen} \cup {PyStr("N/A"), PyRaise("APIError")}

\* Outcomes of llm.invoke(...).content in correctness: the judge's text, or
\* the call raises.
JudgeReplies ==
  {PyStr(s) : s \in {"CORRECT", "INCORRECT", "correct", "CORRECT.", " CORRECT",
                     "CORRECT\n", "Grade: CORRECT", "banana", ""}}
  \cup {PyRaise("APIError")}

\* d[k] of a dict: the value, or KeyError.
getitem(d, k) == IF k \in DOMAIN d THEN PyStr(d[k]) ELSE PyRaise("KeyError")

\* my_app(question): the content of the model's reply; a raising llm.invoke
\* propagates.
my_app(question, reply) == reply

ls_target_wrong_key(inputs, reply) ==
  LET q == getitem(inputs, "question") IN
  IF q.type = "raise" THEN q
  ELSE LET r == my_app(q.s, reply) IN
       IF r.type = "raise" THEN r ELSE PyDict([answer |-> r.s])

\* ls_target(inputs) = {"response": my_app(inputs["question"])}
ls_target(inputs, reply) ==
  LET q == getitem(inputs, "question") IN
  IF q.type = "raise" THEN q
  ELSE LET r == my_app(q.s, reply) IN
       IF r.type = "raise" THEN r ELSE PyDict([response |-> r.s])

\* conciseness(outputs, reference_outputs) =
\*   int(len(outputs["response"]) < 2 * len(reference_outputs["answer"]))
conciseness(outs, reference_outputs) ==
  LET r == getitem(outs, "response") IN
  IF r.type = "raise" THEN r
  ELSE LET a == getitem(reference_outputs, "answer") IN
       IF a.type = "raise" THEN a
       ELSE PyInt(int(Len(r.s) < 2 * Len(a.s)))

correctness_not_incorrect(inputs, outs, reference_outputs, reply) ==
  LET q == getitem(inputs, "question")
      a == getitem(reference_outputs, "answer")
      r == getitem(outs, "response")
  IN  IF q.type = "raise" THEN q
      ELSE IF a.type = "raise" THEN a
      ELSE IF r.type = "raise" THEN r
      ELSE IF reply.type = "raise" THEN reply
      ELSE PyBool(reply.s # "INCORRECT")

correctness_unparseable_raises(inputs, outs, reference_outputs, reply) ==
  LET q == getitem(inputs, "question")
      a == getitem(reference_outputs, "answer")
      r == getitem(outs, "response")
  IN  IF q.type = "raise" THEN q
      ELSE IF a.type = "raise" THEN a
      ELSE IF r.type = "raise" THEN r
      ELSE IF reply.type = "raise" THEN reply
      ELSE IF reply.s = "CORRECT" THEN PyBool(TRUE)
      ELSE IF reply.s = "INCORRECT" THEN PyBool(FALSE)
      ELSE PyRaise("ValueError")

\* correctness(inputs, outputs, reference_outputs): the prompt reads
\* inputs['question'], reference_outputs['answer'], outputs['response'] in
\* that order, then the judge is invoked and its content compared with ==.
correctness(inputs, outs, reference_outputs, reply) ==
  LET q == getitem(inputs, "question")
      a == getitem(reference_outputs, "answer")
      r == getitem(outs, "response")
  IN  IF q.type = "raise" THEN q
      ELSE IF a.type = "raise" THEN a
      ELSE IF r.type = "raise" THEN r
      ELSE IF reply.type = "raise" THEN reply
      ELSE PyBool(reply.s = "CORRECT")

NoScores == [conciseness |-> NoValue, correctness |-> NoValue]

Init ==
  /\ example = 0
  /\ outputs = NoValue
  /\ scores = NoScores
  /\ judge = NoValue

\* client.evaluate calls ls_target on the inputs of an example of the dataset.
RunTarget ==
  \E i \in 1..Len(Examples), reply \in AppReplies :
    /\ example' = i
    /\ outputs' = ls_target(Examples[i].inputs, reply)
    /\ scores' = NoScores
    /\ judge' = NoValue

\* client.evaluate calls conciseness on the dict ls_target returned.
RunConciseness ==
  /\ example # 0
  /\ outputs.type = "dict"
  /\ scores' = [scores EXCEPT
                  !.conciseness = conciseness(outputs.d, Examples[example].outputs)]
  /\ UNCHANGED <<example, outputs, judge>>

\* client.evaluate calls correctness on the dict ls_target returned.
RunCorrectness ==
  /\ example # 0
  /\ outputs.type = "dict"
  /\ \E reply \in JudgeReplies :
       /\ judge' = reply
       /\ scores' = [scores EXCEPT
                       !.correctness = correctness(Examples[example].inputs, outputs.d,
                                                   Examples[example].outputs, reply)]
  /\ UNCHANGED <<example, outputs>>

Next == RunTarget \/ RunConciseness \/ RunCorrectness

Spec == Init /\ [][Next]_vars

----------------------------------------------------------------------------

\* The text the target returned and the reference answer of the example in hand.
Response == outputs.d["response"]
Answer == Examples[example].outputs["answer"]

\* C4: conciseness returns a boolean, true exactly when the response is
\* strictly shorter than twice the reference answer.
C4_ConcisenessReturnsBoolean ==
  scores.conciseness.type # "none" =>
    /\ scores.conciseness.type = "bool"
    /\ scores.conciseness.b <=> (Len(Response) < 2 * Len(Answer))

\* What conciseness does return: the int 1 when the response is strictly
\* shorter than twice the reference answer, the int 0 otherwise.
ConcisenessThreshold ==
  scores.conciseness.type # "none" =>
    /\ scores.conciseness.type = "int"
    /\ scores.conciseness.n = 1 <=> (Len(Response) < 2 * Len(Answer))
    /\ scores.conciseness.n \in {0, 1}

ConcisenessAtBoundary ==
  /\ scores.conciseness.type = "int"
  /\ Len(Response) = 2 * Len(Answer)
  /\ scores.conciseness.n = 0

ConcisenessBelowBoundary ==
  /\ scores.conciseness.type = "int"
  /\ Len(Response) = 2 * Len(Answer) - 1
  /\ scores.conciseness.n = 1

\* C5: whatever text the judge returns, correctness does not raise; it
\* returns True when the text is exactly "CORRECT" and False for every other.
C5_CorrectnessExactMatch ==
  judge.type = "str" =>
    /\ scores.correctness.type = "bool"
    /\ scores.correctness.b <=> (judge.s = "CORRECT")

C5_Witness ==
  /\ judge.type = "str"
  /\ judge.s = "CORRECT."
  /\ scores.correctness = PyBool(FALSE)

\* C6 as stated: a reply that is neither "CORRECT" nor "INCORRECT" is
\* recorded as a failure of the correctness evaluator, never as False.
C6_UnparseableIsFailure ==
  (judge.type = "str" /\ judge.s \notin {"CORRECT", "INCORRECT"}) =>
    scores.correctness.type = "raise"

\* C6 amended: a reply that is neither "CORRECT" nor "INCORRECT" gets the
\* same result as "INCORRECT": the score False, not a failure.
C6_UnparseableIsFalse ==
  (judge.type = "str" /\ judge.s \notin {"CORRECT", "INCORRECT"}) =>
    scores.correctness = PyBool(FALSE)

C6_Witness ==
  /\ judge.type = "str"
  /\ judge.s = "banana"
  /\ scores.correctness = PyBool(FALSE)

\* C10: the field names agree along the pipeline: every example has exactly
\* the input field "question" and the reference field "answer", a returning
\* ls_target gives a dict with exactly the field "response", and no
\* evaluator called on it raises KeyError.
C10_FieldNamesAgree ==
  /\ \A i \in 1..Len(Examples) :
       /\ DOMAIN Examples[i].inputs = {"question"}
       /\ DOMAIN Examples[i].outputs = {"answer"}
  /\ outputs.type = "raise" => outputs.exc # "KeyError"
  /\ outputs.type = "dict" => DOMAIN outputs.d = {"response"}
  /\ \A ev \in DOMAIN scores :
       scores[ev].type = "raise" => scores[ev].exc # "KeyError"

C10_Witness ==
  /\ outputs.type = "dict"
  /\ scores.conciseness.type = "int"
  /\ scores.correctness.type = "bool"

====
